---- MODULE Spec2Model ----
(***************************************************************************)
(* MultimodalInference.generate_stream (src/multimodal_inference.py):      *)
(* the streaming loop with its repetition / refusal checks, and the        *)
(* out-of-memory handler with its single size-reduced retry.               *)
(*                                                                         *)
(* A text is a sequence of characters and a character is a one-element     *)
(* string token.  The CJK characters of the source are written as ASCII    *)
(* tokens ("qing" for U+8BF7, ...): one token is one character, so that    *)
(* Len() of a text is Python's len() of the str.                           *)
(***************************************************************************)
EXTENDS Integers, Sequences, FiniteSets, TLC

(***************************************************************************)
(* Bounds of the model.                                                    *)
(***************************************************************************)
\* the engine emits at most this many chunks in the first attempt
MaxChunks == 3
\* the engine emits at most this many chunks in the retry
MaxRetryChunks == 2
\* the scores a composition sub-section of an answer mentions, at most
MaxScores == 2

\* the longest list of images of a batch
MaxImages == 3

(***************************************************************************)
(* Constants of the program.                                               *)
(***************************************************************************)
\* generated_text[-50:], len(generated_text) > 50
SpanLen == 50
\* len(response.text.strip()) > 3
MinRepeatLen == 3
\* len(generated_text) > 20
MinRefusalLen == 20
\* if max_size > 256
MinMaxSize == 256
\* min(max_tokens, 256)
RetryMaxTokens == 256

(***************************************************************************)
(* Python str primitives.                                                  *)
(***************************************************************************)
Rep(c, n) == [i \in 1..n |-> c]

\* sub in s
Contains(sub, s) ==
  \E i \in 0..(Len(s) - Len(sub)) : \A j \in 1..Len(sub) : s[i + j] = sub[j]

\* s[-n:] for n > 0
LastChars(s, n) == IF Len(s) <= n THEN s ELSE SubSeq(s, Len(s) - n + 1, Len(s))

\* s[:-n] for n > 0
DropLast(s, n) == IF Len(s) <= n THEN <<>> ELSE SubSeq(s, 1, Len(s) - n)

IsSpace(c) == c \in {" ", "\t", "\n", "\r"}

RECURSIVE LStrip(_)
LStrip(s) == IF s # <<>> /\ IsSpace(Head(s)) THEN LStrip(Tail(s)) ELSE s

RECURSIVE RStrip(_)
RStrip(s) ==
  IF s # <<>> /\ IsSpace(s[Len(s)]) THEN RStrip(SubSeq(s, 1, Len(s) - 1)) ELSE s

\* s.strip()
Strip(s) == RStrip(LStrip(s))

UpperCase == <<"A","B","C","D","E","F","G","H","I","J","K","L","M",
               "N","O","P","Q","R","S","T","U","V","W","X","Y","Z">>
LowerCase == <<"a","b","c","d","e","f","g","h","i","j","k","l","m",
               "n","o","p","q","r","s","t","u","v","w","x","y","z">>

\* the lower-case letter of each upper-case letter
LowerOf == [c \in {UpperCase[i] : i \in 1..26} |->
              LowerCase[CHOOSE i \in 1..26 : UpperCase[i] = c]]

LowerChar(c) == IF c \in DOMAIN LowerOf THEN LowerOf[c] ELSE c

\* s.lower()
Lower(s) == [i \in 1..Len(s) |-> LowerChar(s[i])]

\* s[-n:] of a list, as Python slices it (s[-0:] is the whole list)
LastItems(s, n) == IF n = 0 \/ Len(s) <= n THEN s ELSE SubSeq(s, Len(s) - n + 1, Len(s))

\* set(s) of a list
Range(s) == {s[i] : i \in 1..Len(s)}

(***************************************************************************)
(* Literals of the source.                                                 *)
(***************************************************************************)
\* "请上传"
PleaseUpload == <<"qing", "shang", "chuan">>
\* "上传照片"
UploadPhoto == <<"shang", "chuan", "zhao", "pian">>
\* "期待您的"
LookForward == <<"qi", "dai", "nin", "de">>

\* 'memory'
MemoryWord == <<"m","e","m","o","r","y">>
\* 'insufficient'
InsufficientWord == <<"i","n","s","u","f","f","i","c","i","e","n","t">>
\* 'kIOGPUCommandBufferCallbackErrorOutOfMemory'
GpuOomCode == <<"k","I","O","G","P","U","C","o","m","m","a","n","d",
                "B","u","f","f","e","r","C","a","l","l","b","a","c","k",
                "E","r","r","o","r","O","u","t","O","f","M","e","m","o","r","y">>

(***************************************************************************)
(* Inputs: the chunks the engine may emit, the messages of the errors it   *)
(* may raise, and the arguments of generate_stream.                        *)
(***************************************************************************)
\* response.text == ""
EmptyChunk == <<>>
\* a whitespace-only chunk
SpaceChunk == <<" ">>
\* a short chunk whose trimmed length is 4
WordChunk == <<"a", "b", "c", "d">>
\* a chunk of raw length 5 whose trimmed length is 2
PaddedChunk == <<" ", "a", "b", " ", " ">>
\* a chunk of 50 equal characters
LongChunk == Rep("x", SpanLen)

\* what the engine may emit in the first attempt
Chunks == {EmptyChunk, SpaceChunk, WordChunk, PaddedChunk, LongChunk,
           PleaseUpload, UploadPhoto, LookForward}

\* what the engine may emit in the retry, whose loop looks only at whether
\* response.text is empty
RetryChunks == {EmptyChunk, WordChunk}

\* "Memory": matches 'memory' only after lower()
MemoryError == <<"M","e","m","o","r","y">>
\* "timeout": no exhaustion signature
TimeoutError == <<"t","i","m","e","o","u","t">>

\* str(e) of what the first call of the engine, or the chat template, may raise
ErrorMessages == {MemoryError, InsufficientWord, TimeoutError}

\* str(retry_e) of what the retry may raise
RetryErrorMessages == {MemoryError, TimeoutError}

RepeatThresholds == {2, 3}
MaxSizes == {200, 256, 257}
MaxTokens == {100, 512}

(***************************************************************************)
(* The checks of the streaming loop, lines 296-320.                        *)
(***************************************************************************)
\* the buffer that never drops its oldest entry
PushSegment_NoEvict(recent, text, thr) == Append(recent, text)

\* recent_segments.append(response.text), then the truncation to the last
\* repeat_threshold entries
PushSegment(recent, text, thr) ==
  LET appended == Append(recent, text)
  IN  IF Len(appended) > thr THEN LastItems(appended, thr) ELSE appended

\* the long-span check searching a haystack one character too short
LongSpanRepeat_ShortHaystack(gen, text) ==
  /\ Len(gen) > SpanLen
  /\ Contains(LastChars(gen, SpanLen), DropLast(gen, SpanLen + 1))
  /\ Len(Strip(text)) > 0

\* the long-span check without its test of the current chunk
LongSpanRepeat_AnyChunk(gen, text) ==
  /\ Len(gen) > SpanLen
  /\ Contains(LastChars(gen, SpanLen), DropLast(gen, SpanLen))

\* the long-span check searching the whole text, its last 50 characters
\* included
LongSpanRepeat_WholeText(gen, text) ==
  /\ Len(gen) > SpanLen
  /\ Contains(LastChars(gen, SpanLen), gen)
  /\ Len(Strip(text)) > 0

\* the long-span check: generated_text is the text before this chunk
LongSpanRepeat(gen, text) ==
  /\ Len(gen) > SpanLen
  /\ Contains(LastChars(gen, SpanLen), DropLast(gen, SpanLen))
  /\ Len(Strip(text)) > 0

\* the short-span check asking for more than repeat_threshold entries
ShortSpanRepeat_StrictLen(recent, text, thr) ==
  /\ Len(recent) > thr
  /\ Cardinality(Range(recent)) = 1
  /\ Len(Strip(text)) > MinRepeatLen

\* the short-span check: recent is the buffer after appending this chunk
ShortSpanRepeat(recent, text, thr) ==
  /\ Len(recent) >= thr
  /\ Cardinality(Range(recent)) = 1
  /\ Len(Strip(text)) > MinRepeatLen

\* the refusal-phrase check with the last phrase left out
RefusalPhrase_TwoPhrases(gen) ==
  /\ \/ Contains(PleaseUpload, gen)
     \/ Contains(UploadPhoto, gen)
  /\ Len(gen) > MinRefusalLen

\* the refusal-phrase check: generated_text is the text before this chunk
RefusalPhrase(gen) ==
  /\ \/ Contains(PleaseUpload, gen)
     \/ Contains(UploadPhoto, gen)
     \/ Contains(LookForward, gen)
  /\ Len(gen) > MinRefusalLen

\* the checks run whatever stop_on_repeat says
GuardEnabled_Always(flag) == TRUE

\* line 296: if stop_on_repeat
GuardEnabled(flag) == flag

\* which break, if any, the loop body takes for this chunk
StopReason(gen, recent, text, thr) ==
  IF LongSpanRepeat(gen, text) THEN "long_span"
  ELSE IF ShortSpanRepeat(PushSegment(recent, text, thr), text, thr) THEN "short_span"
  ELSE IF RefusalPhrase(gen) THEN "refusal"
  ELSE "none"

\* the test written as "if 'memory' or 'insufficient' in ...", always true
IsMemoryError_Truthy(error_msg) == Len(error_msg) >= 0

\* the test of str(e) for the letter 'm' alone
IsMemoryError_AnyM(error_msg) == Contains(<<"m">>, Lower(error_msg))

\* the except clause's test of str(e), lines 325-327
IsMemoryError(error_msg) ==
  \/ Contains(MemoryWord, Lower(error_msg))
  \/ Contains(InsufficientWord, Lower(error_msg))
  \/ Contains(GpuOomCode, error_msg)

\* min(max_tokens, 256)
Min(a, b) == IF a < b THEN a ELSE b

\* the floor test taken as max_size >= 256
CanShrink_Inclusive(size) == size >= MinMaxSize

\* line 332: if max_size > 256
CanShrink(size) == size > MinMaxSize

\* the retry called with the token budget of the first attempt
RetryRequest_SameTokens(size, tokens) == [max_size |-> size \div 2, max_tokens |-> tokens]

\* lines 334 and 341: the image budget and the token budget of the retry
RetryRequest(size, tokens) ==
  [max_size |-> size \div 2, max_tokens |-> Min(tokens, RetryMaxTokens)]

(***************************************************************************)
(* State of one run of generate_stream.                                    *)
(***************************************************************************)
VARIABLES
  pc,               \* where the generator stands
  stop_on_repeat,   \* argument
  repeat_threshold, \* argument
  max_size,         \* argument
  max_tokens,       \* argument
  generated_text,   \* local: the text yielded so far in the first attempt
  recent_segments,  \* local: the last repeat_threshold chunks
  response,         \* <<chunk>> pulled from the engine and not yet handled
  observed,         \* history: the non-empty chunks of the first attempt
                    \*          with what the loop decided for each
  out,              \* history: what the generator has yielded
  calls,            \* history: the calls of stream_generate, each with the
                    \*          max_size its image was prepared under and its
                    \*          max_tokens
  pulls,            \* history: chunks requested from the engine, first attempt
  retry_pulls,      \* history: chunks requested from the engine, retry
  stopped,          \* a break was taken
  caught,           \* <<str(e)>> of the exception of the first attempt
  retry_e,          \* <<str(retry_e)>> of the exception of the retry
  cleared           \* history: calls of clear_mlx_memory

\* AestheticAnalyzer (src/aesthetic_analyzer.py): one answer of the model
\* parsed, reported and parsed again
VARIABLES
  analyzer_pc,      \* where the analysis of the answer stands
  parts,            \* input: the pieces the answer is made of, one per slot
  raw_response,     \* argument response of parse_response: <<text>>, or <<>>
                    \*          for None
  analysis,         \* <<outcome>> of parse_response(raw_response)
  report,           \* <<text>> that format_analysis_report made of analysis
  report_analysis   \* <<outcome>> of parse_response(report)

\* generate_stream and the image files (src/multimodal_inference.py): the
\* runs of generate_stream, each with its image, and the directory they
\* work in
VARIABLES
  run_pc,                  \* where each run stands
  run_args,                \* arguments of each run, and what its engine and
                           \*   its image library will do
  processed_image_path,    \* local of each run
  smaller_processed_path,  \* local of each run
  files,                   \* the directory: what each file holds
  created,                 \* history: the files each run has written
  accesses,                \* history: which run read, wrote or removed
                           \*   which file
  engine_reads,            \* history: what the engine of each run found at
                           \*   the path it was given
  result,                  \* what each run told its caller at its end
  messages                 \* history: the messages each run has yielded
                           \*   besides the chunks of the engine

\* the batch of main (src/run_aesthetic_analysis.py)
VARIABLES
  batch_pc,             \* where main stands
  image_files,          \* local of main: the images, in the order of the list
  pending,              \* the iterator of the loop: the images it has not
                        \*   handed out yet
  successful_analyses,  \* local of main
  failed_count,         \* local of main
  attempted             \* history: the images given to analyze_single_image,
                        \*   in the order of the calls

streamVars == <<pc, stop_on_repeat, repeat_threshold, max_size, max_tokens,
                generated_text, recent_segments, response, observed, out, calls,
                pulls, retry_pulls, stopped, caught, retry_e, cleared>>

analyzerVars == <<analyzer_pc, parts, raw_response, analysis, report, report_analysis>>

fileVars == <<run_pc, run_args, processed_image_path, smaller_processed_path,
              files, created, accesses, engine_reads, result, messages>>

batchVars == <<batch_pc, image_files, pending, successful_analyses, failed_count,
               attempted>>

vars == <<streamVars, analyzerVars, fileVars, batchVars>>

\* no generate_stream is running
StreamIdle ==
  /\ pc = "idle"
  /\ stop_on_repeat = FALSE
  /\ repeat_threshold = 2
  /\ max_size = MinMaxSize
  /\ max_tokens = RetryMaxTokens
  /\ generated_text = <<>>
  /\ recent_segments = <<>>
  /\ response = <<>>
  /\ observed = <<>>
  /\ out = <<>>
  /\ calls = <<>>
  /\ pulls = 0
  /\ retry_pulls = 0
  /\ stopped = FALSE
  /\ caught = <<>>
  /\ retry_e = <<>>
  /\ cleared = 0

\* what generate_stream leaves alone when its image is left out
notStream == <<analyzerVars, fileVars, batchVars>>

\* what parse_response and format_analysis_report leave alone
notAnalyzer == <<streamVars, fileVars, batchVars>>

\* what a run of generate_stream on an image file leaves alone
notFiles == <<streamVars, analyzerVars, batchVars>>

\* what the batch of main leaves alone
notBatch == <<streamVars, analyzerVars, fileVars>>

\* no answer is being analysed
AnalyzerIdle ==
  /\ analyzer_pc = "idle"
  /\ parts = <<>>
  /\ raw_response = <<>>
  /\ analysis = <<>>
  /\ report = <<>>
  /\ report_analysis = <<>>

\* no run of generate_stream works on image files
FilesIdle ==
  /\ run_pc = <<>>
  /\ run_args = <<>>
  /\ processed_image_path = <<>>
  /\ smaller_processed_path = <<>>
  /\ files = <<>>
  /\ created = <<>>
  /\ accesses = {}
  /\ engine_reads = <<>>
  /\ result = <<>>
  /\ messages = <<>>

\* no batch is running
BatchIdle ==
  /\ batch_pc = "idle"
  /\ image_files = <<>>
  /\ pending = <<>>
  /\ successful_analyses = <<>>
  /\ failed_count = 0
  /\ attempted = <<>>

args == <<stop_on_repeat, repeat_threshold, max_size, max_tokens>>

Yielded(kind, text) == [kind |-> kind, text |-> text]

\* the report of an error without the error in it
ErrorReport_NoCause(e) == Yielded("error", <<>>)

\* line 359: the report of an error, which carries str(e)
ErrorReport(e) == Yielded("error", e)

Init ==
  /\ pc = "start"
  /\ stop_on_repeat \in BOOLEAN
  /\ repeat_threshold \in RepeatThresholds
  /\ max_size \in MaxSizes
  /\ max_tokens \in MaxTokens
  /\ generated_text = <<>>
  /\ recent_segments = <<>>
  /\ response = <<>>
  /\ observed = <<>>
  /\ out = <<>>
  /\ calls = <<>>
  /\ pulls = 0
  /\ retry_pulls = 0
  /\ stopped = FALSE
  /\ caught = <<>>
  /\ retry_e = <<>>
  /\ cleared = 0
  /\ AnalyzerIdle
  /\ FilesIdle
  /\ BatchIdle

\* lines 247-293: validation, the chat template, the first call of the engine.
\* What validate_image_file answers and whether apply_chat_template raises
\* are inputs of the run.
Start ==
  /\ pc = "start"
  /\ \E is_valid \in BOOLEAN, template_error \in {<<>>} \cup {<<e>> : e \in ErrorMessages} :
       IF ~is_valid
       THEN /\ out' = Append(out, Yielded("image_error", <<>>))
            /\ pc' = "done"
            /\ calls' = calls
       ELSE IF template_error # <<>>
       THEN /\ out' = Append(out, ErrorReport(template_error[1]))
            /\ pc' = "done"
            /\ calls' = calls
       ELSE /\ out' = out
            /\ pc' = "pull"
            /\ calls' = Append(calls, [max_size |-> max_size, max_tokens |-> max_tokens])
  /\ UNCHANGED notStream
  /\ UNCHANGED <<args, generated_text, recent_segments, response, observed,
                 pulls, retry_pulls, stopped, caught, retry_e, cleared>>

\* line 285: the for statement asks the engine for its next response
Pull ==
  /\ pc = "pull"
  /\ pulls' = pulls + 1
  /\ \/ \E text \in Chunks :
          /\ pulls < MaxChunks
          /\ response' = <<text>>
          /\ pc' = "guard"
          /\ UNCHANGED caught
     \/ \* the engine is exhausted: the loop ends, the finally clause runs
        /\ pc' = "done"
        /\ UNCHANGED <<response, caught>>
     \/ \E e \in ErrorMessages :
          /\ caught' = <<e>>
          /\ pc' = "except"
          /\ UNCHANGED response
  /\ UNCHANGED notStream
  /\ UNCHANGED <<args, generated_text, recent_segments, observed, out, calls,
                 retry_pulls, stopped, retry_e, cleared>>

\* the loop body whose break does not leave the loop
Guard_NoBreak ==
  /\ pc = "guard"
  /\ LET text == response[1]
         reason == StopReason(generated_text, recent_segments, text, repeat_threshold)
     IN  /\ response' = <<>>
         /\ IF text = <<>>
            THEN \* if response.text: is false
                 /\ pc' = "pull"
                 /\ UNCHANGED <<generated_text, recent_segments, observed, out, stopped>>
            ELSE IF stop_on_repeat
            THEN /\ recent_segments' = PushSegment(recent_segments, text, repeat_threshold)
                 /\ IF reason # "none"
                    THEN \* break
                         /\ observed' = Append(observed, [text |-> text, verdict |-> "STOP", reason |-> reason])
                         /\ stopped' = TRUE
                         /\ pc' = "pull"
                         /\ UNCHANGED <<generated_text, out>>
                    ELSE /\ observed' = Append(observed, [text |-> text, verdict |-> "CONTINUE", reason |-> reason])
                         /\ generated_text' = generated_text \o text
                         /\ out' = Append(out, Yielded("chunk", text))
                         /\ pc' = "pull"
                         /\ UNCHANGED stopped
            ELSE /\ observed' = Append(observed, [text |-> text, verdict |-> "UNGUARDED", reason |-> "none"])
                 /\ generated_text' = generated_text \o text
                 /\ out' = Append(out, Yielded("chunk", text))
                 /\ pc' = "pull"
                 /\ UNCHANGED <<recent_segments, stopped>>
  /\ UNCHANGED notStream
  /\ UNCHANGED <<args, calls, pulls, retry_pulls, caught, retry_e, cleared>>

\* lines 294-323: the loop body for one response
Guard ==
  /\ pc = "guard"
  /\ LET text == response[1]
         reason == StopReason(generated_text, recent_segments, text, repeat_threshold)
     IN  /\ response' = <<>>
         /\ IF text = <<>>
            THEN \* if response.text: is false
                 /\ pc' = "pull"
                 /\ UNCHANGED <<generated_text, recent_segments, observed, out, stopped>>
            ELSE IF GuardEnabled(stop_on_repeat)
            THEN /\ recent_segments' = PushSegment(recent_segments, text, repeat_threshold)
                 /\ IF reason # "none"
                    THEN \* break
                         /\ observed' = Append(observed, [text |-> text, verdict |-> "STOP", reason |-> reason])
                         /\ stopped' = TRUE
                         /\ pc' = "done"
                         /\ UNCHANGED <<generated_text, out>>
                    ELSE /\ observed' = Append(observed, [text |-> text, verdict |-> "CONTINUE", reason |-> reason])
                         /\ generated_text' = generated_text \o text
                         /\ out' = Append(out, Yielded("chunk", text))
                         /\ pc' = "pull"
                         /\ UNCHANGED stopped
            ELSE /\ observed' = Append(observed, [text |-> text, verdict |-> "UNGUARDED", reason |-> "none"])
                 /\ generated_text' = generated_text \o text
                 /\ out' = Append(out, Yielded("chunk", text))
                 /\ pc' = "pull"
                 /\ UNCHANGED <<recent_segments, stopped>>
  /\ UNCHANGED notStream
  /\ UNCHANGED <<args, calls, pulls, retry_pulls, caught, retry_e, cleared>>

\* lines 324-359 up to the second call of the engine
Except ==
  /\ pc = "except"
  /\ LET e == caught[1]
     IN  IF IsMemoryError(e)
         THEN /\ cleared' = cleared + 1
              /\ IF CanShrink(max_size)
                 THEN /\ out' = out \o <<Yielded("oom", <<>>), Yielded("retrying", <<>>)>>
                      /\ calls' = Append(calls, RetryRequest(max_size, max_tokens))
                      /\ pc' = "retry"
                 ELSE /\ out' = out \o <<Yielded("oom", <<>>), Yielded("cannot_shrink", <<>>)>>
                      /\ calls' = calls
                      /\ pc' = "done"
         ELSE /\ out' = Append(out, ErrorReport(e))
              /\ UNCHANGED <<calls, cleared>>
              /\ pc' = "done"
  /\ UNCHANGED notStream
  /\ UNCHANGED <<args, generated_text, recent_segments, response, observed,
                 pulls, retry_pulls, stopped, caught, retry_e>>

\* lines 336-355: one turn of the retry loop
Retry ==
  /\ pc = "retry"
  /\ retry_pulls' = retry_pulls + 1
  /\ \/ \E text \in RetryChunks :
          /\ retry_pulls < MaxRetryChunks
          /\ out' = IF text # <<>> THEN Append(out, Yielded("chunk", text)) ELSE out
          /\ pc' = "retry"
          /\ UNCHANGED retry_e
     \/ /\ pc' = "done"
        /\ UNCHANGED <<out, retry_e>>
     \/ \E e \in RetryErrorMessages :
          /\ retry_e' = <<e>>
          /\ out' = Append(out, Yielded("retry_failed", e))
          /\ pc' = "done"
  /\ UNCHANGED notStream
  /\ UNCHANGED <<args, generated_text, recent_segments, response, observed,
                 calls, pulls, stopped, caught, cleared>>

Next == Start \/ Pull \/ Guard \/ Except \/ Retry

Spec == Init /\ [][Next]_vars

TypeOK ==
  /\ pc \in {"idle", "start", "pull", "guard", "except", "retry", "done"}
  /\ Len(response) <= 1
  /\ Len(caught) <= 1
  /\ Len(retry_e) <= 1
  /\ Len(calls) <= 2

(***************************************************************************)
(* Vocabulary of the properties.                                           *)
(***************************************************************************)
RECURSIVE Concat(_)
Concat(texts) == IF texts = <<>> THEN <<>> ELSE Head(texts) \o Concat(Tail(texts))

\* the text accumulated before the k-th non-empty chunk of the first attempt
TextBefore(k) == Concat([i \in 1..(k - 1) |-> observed[i].text])

\* the text accumulated once the k-th non-empty chunk is appended as well
TextWith(k) == Concat([i \in 1..k |-> observed[i].text])

TrimmedLen(text) == Len(Strip(text))

HasDenylistPhrase(text) ==
  \E phrase \in {PleaseUpload, UploadPhoto, LookForward} : Contains(phrase, text)

\* the last 50 characters occur in the text without its last 50 characters
TailReappears(text) ==
  /\ Len(text) > 50
  /\ \E i \in 0..(Len(text) - 100) : \A j \in 1..50 : text[i + j] = text[Len(text) - 50 + j]

\* the guard is the code under "if stop_on_repeat:"
Guarded(k) == observed[k].verdict # "UNGUARDED"

\* an error message that carries an exhaustion signature
ExhaustionSignature(msg) ==
  \E word \in {MemoryWord, InsufficientWord} : Contains(word, Lower(msg))

Exhausted == caught # <<>> /\ ExhaustionSignature(caught[1])

OtherFailure == caught # <<>> /\ ~ExhaustionSignature(caught[1])

LastYielded == out[Len(out)]

Outcome ==
  IF pc # "done" THEN "RUNNING"
  ELSE IF stopped THEN "STOPPED_EARLY"
  ELSE IF out # <<>> /\ LastYielded.kind \in {"image_error", "error", "cannot_shrink", "retry_failed"}
       THEN "FAILED"
  ELSE IF Len(calls) = 2 THEN "DEGRADED_OK"
  ELSE "OK"

\* the chunks yielded by the retry loop
RetryYielded ==
  IF \E i \in 1..Len(out) : out[i].kind = "retrying"
  THEN LET start == CHOOSE i \in 1..Len(out) : out[i].kind = "retrying"
           rest == SubSeq(out, start + 1, Len(out))
           chunks == SelectSeq(rest, LAMBDA y : y.kind = "chunk")
       IN  [i \in 1..Len(chunks) |-> chunks[i].text]
  ELSE <<>>

\* a guard with fresh state, fed these chunks, decides STOP on one of them
RECURSIVE FreshGuardStops(_, _, _)
FreshGuardStops(gen, recent, chunks) ==
  IF chunks = <<>> THEN FALSE
  ELSE LET text == Head(chunks)
           pushed == LastItems(Append(recent, text), repeat_threshold)
       IN  \/ TailReappears(gen) /\ TrimmedLen(text) > 0
           \/ Len(pushed) >= repeat_threshold /\ Cardinality(Range(pushed)) = 1 /\ TrimmedLen(text) > 3
           \/ HasDenylistPhrase(gen) /\ Len(gen) > 20
           \/ FreshGuardStops(gen \o text, pushed, Tail(chunks))

(***************************************************************************)
(* C1-C10: the stream checks and the bounded retry.                        *)
(***************************************************************************)
\* the k-th chunk repeats the repeat_threshold-1 non-empty chunks before it
RepeatsPredecessors(k) ==
  /\ k >= repeat_threshold
  /\ \A j \in (k - repeat_threshold + 1)..k : observed[j].text = observed[k].text
  /\ TrimmedLen(observed[k].text) > 3

\* C1: with stop_on_repeat, a chunk that is identical to each of the
\* repeat_threshold-1 non-empty chunks before it, all of trimmed length > 3,
\* is decided STOP: the run ends there, the chunk and anything later is not
\* yielded.
C1_ShortSpanStops ==
  stop_on_repeat =>
    \A k \in 1..Len(observed) :
      RepeatsPredecessors(k) =>
        /\ observed[k].verdict = "STOP"
        /\ k = Len(observed)
        /\ pc = "done"
        /\ Len(out) = k - 1

C1_Witness ==
  /\ stop_on_repeat
  /\ observed # <<>>
  /\ RepeatsPredecessors(Len(observed))
  /\ observed[Len(observed)].reason = "short_span"

C3_RetryGuarded ==
  stop_on_repeat => ~FreshGuardStops(<<>>, <<>>, RetryYielded)

\* C4 as stated: a whitespace-only chunk is never decided STOP.
C4_WhitespaceNeverStops ==
  \A k \in 1..Len(observed) :
    TrimmedLen(observed[k].text) = 0 => observed[k].verdict # "STOP"

\* C4 as amended: an empty chunk changes nothing of the guard and never
\* stops; a whitespace-only chunk never stops by the two repetition checks,
\* it stops exactly when the text accumulated before it is longer than 20
\* characters and contains a denylist phrase.
C4_WhitespaceStopsOnlyOnRefusal ==
  [][ (pc = "guard" /\ TrimmedLen(response[1]) = 0) =>
        /\ response[1] = <<>> =>
             /\ ~stopped'
             /\ UNCHANGED <<generated_text, recent_segments, observed, out>>
        /\ stopped' <=>
             /\ response[1] # <<>>
             /\ stop_on_repeat
             /\ Len(TextBefore(Len(observed) + 1)) > 20
             /\ HasDenylistPhrase(TextBefore(Len(observed) + 1)) ]_vars

C4_Witness ==
  /\ stopped
  /\ TrimmedLen(observed[Len(observed)].text) = 0
  /\ observed[Len(observed)].reason = "refusal"

\* C5: the engine is called at most twice in a run; the second call is made
\* only after the first has failed with a resource-exhaustion error; when
\* the retry fails the run is over, failed, with no third call.
C5_BoundedRetry ==
  /\ Len(calls) <= 2
  /\ Len(calls) = 2 => Exhausted /\ pulls >= 1 /\ pc \in {"retry", "done"}
  /\ retry_pulls > 0 => Len(calls) = 2
  /\ retry_e # <<>> => pc = "done" /\ Len(calls) = 2 /\ Outcome = "FAILED"

C5_Witness ==
  /\ pc = "done"
  /\ Len(calls) = 2
  /\ retry_e # <<>>
  /\ retry_pulls > 1

\* C6: a resource-exhaustion error with max_size <= 256 ends the run as
\* failed with a single call of the engine.
C6_NoRetryAtFloor ==
  (Exhausted /\ max_size <= 256) =>
    /\ Len(calls) = 1
    /\ retry_pulls = 0
    /\ pc \in {"except", "done"}
    /\ pc = "done" => Outcome = "FAILED"

C6_Witness ==
  /\ Exhausted
  /\ max_size = 256
  /\ pc = "done"
  /\ pulls > 1

\* C7: exhaustion on the first call with max_size > 256 and a retry that
\* succeeds: exactly two calls, the second with max_size // 2 and
\* min(max_tokens, 256), and a degraded success.
C7_HalvedRetry ==
  (Exhausted /\ max_size > 256 /\ pc = "done" /\ retry_e = <<>>) =>
    /\ Len(calls) = 2
    /\ calls[1] = [max_size |-> max_size, max_tokens |-> max_tokens]
    /\ 2 * calls[2].max_size \in {max_size - 1, max_size}
    /\ calls[2].max_tokens <= 256
    /\ calls[2].max_tokens <= max_tokens
    /\ calls[2].max_tokens \in {256, max_tokens}
    /\ Outcome = "DEGRADED_OK"

C7_Witness ==
  /\ Exhausted
  /\ max_size > 256
  /\ max_tokens > 256
  /\ pc = "done"
  /\ retry_e = <<>>
  /\ RetryYielded # <<>>

\* C8: an engine error without an exhaustion signature is not retried: the
\* run ends failed after one call of the engine, and the last thing yielded
\* is the error report carrying the message of that error.
C8_OtherErrorNotRetried ==
  OtherFailure =>
    /\ Len(calls) = 1
    /\ retry_pulls = 0
    /\ pc \in {"except", "done"}
    /\ pc = "done" =>
         /\ Outcome = "FAILED"
         /\ LastYielded = [kind |-> "error", text |-> caught[1]]

C8_Witness ==
  /\ OtherFailure
  /\ pc = "done"
  /\ pulls > 1

\* C9 as stated: the verdict is STOP for a chunk when the accumulated text,
\* that chunk included, is longer than 20 characters and contains a
\* denylist phrase.
C9_RefusalStopsIncludingChunk ==
  \A k \in 1..Len(observed) :
    (Guarded(k) /\ Len(TextWith(k)) > 20 /\ HasDenylistPhrase(TextWith(k)))
    => observed[k].verdict = "STOP"

\* C9 as amended: the verdict is STOP for a chunk when the text accumulated
\* before that chunk is longer than 20 characters and contains a denylist
\* phrase.
C9_RefusalStopsOnEarlierText ==
  \A k \in 1..Len(observed) :
    (Guarded(k) /\ Len(TextBefore(k)) > 20 /\ HasDenylistPhrase(TextBefore(k)))
    => observed[k].verdict = "STOP"

C9_Witness ==
  /\ observed # <<>>
  /\ Len(TextBefore(Len(observed))) > 20
  /\ HasDenylistPhrase(TextBefore(Len(observed)))
  /\ observed[Len(observed)].reason = "refusal"

\* C10: a chunk is requested from the engine only when the chunk before it
\* has been through the loop body, and never once a break was taken.
C10_PullAfterGuard ==
  [][ (pulls' # pulls \/ retry_pulls' # retry_pulls) =>
        /\ response = <<>>
        /\ ~stopped ]_vars

C10_Witness ==
  /\ stopped
  /\ pulls >= 3
  /\ Len(out) >= 2

(***************************************************************************)
(* AestheticAnalyzer (src/aesthetic_analyzer.py): parse_response with its  *)
(* regular expressions, and format_analysis_report.                        *)
(*                                                                         *)
(* The markers of the answer, character by character:                      *)
(*   DimensionMarker     U+7EF4 U+5EA6 U+5206 U+6790 U+4E0E U+8BC4 U+5206  *)
(*                       U+FF1A                                            *)
(*   OverallScoreMarker  U+7EFC U+5408 U+8BC4 U+5206 U+FF1A                *)
(*   CompositionLabel    U+6784 U+56FE U+FF1A                              *)
(*   FocalLabel          U+7126 U+6BB5 U+FF1A                              *)
(*   ContrastWord        U+5BF9 U+6BD4 U+5EA6                              *)
(*   EvaluationMarker    U+7EFC U+5408 U+8BC4 U+4EF7 U+4E0E U+5EFA U+8BAE  *)
(*                       U+FF1A                                            *)
(*   SuggestionKeyword   U+5EFA U+8BAE                                     *)
(*   ScoreUnit           U+5206                                            *)
(* "colon" is the full-width colon U+FF1A, ":" the ASCII one.              *)
(***************************************************************************)
DimensionMarker == <<"wei", "du", "fen", "xi", "yu", "ping", "fen", "colon">>

OverallScoreMarker == <<"zong", "he", "ping", "fen", "colon">>

CompositionLabel == <<"gou", "tu", "colon">>

FocalLabel == <<"jiao", "duan", "colon">>

ContrastWord == <<"dui", "bi", "du">>

ContrastLabel == ContrastWord \o <<"&", "pu", "guang", "du", "&", "liang", "du", "colon">>

EvaluationMarker == <<"zong", "he", "ping", "jia", "yu", "jian", "yi", "colon">>

SuggestionKeyword == <<"jian", "yi">>

ScoreUnit == "fen"

Newline == "\n"

BlankLine == <<Newline, Newline>>

TwoBlankLines == <<Newline, Newline, Newline>>

\* the width of the rules of the report
RuleLen == 60

(***************************************************************************)
(* Numbers: a float is its sign, its whole part and the digits of its      *)
(* fraction without trailing zeros.  This is exact for the numerals of     *)
(* the model, which have fewer than 15 significant digits.                 *)
(***************************************************************************)
Digits == {"0", "1", "2", "3", "4", "5", "6", "7", "8", "9"}

DigitSeq == <<"0", "1", "2", "3", "4", "5", "6", "7", "8", "9">>

DigitValue == [c \in Digits |-> (CHOOSE i \in 1..10 : DigitSeq[i] = c) - 1]

IsDigit(c) == c \in Digits

RECURSIVE NatOf(_)
NatOf(ds) == IF ds = <<>> THEN 0
             ELSE 10 * NatOf(SubSeq(ds, 1, Len(ds) - 1)) + DigitValue[ds[Len(ds)]]

RECURSIVE DigitsOf(_)
DigitsOf(n) == IF n < 10 THEN <<DigitSeq[n + 1]>>
               ELSE Append(DigitsOf(n \div 10), DigitSeq[(n % 10) + 1])

RECURSIVE DropTrailingZeros(_)
DropTrailingZeros(ds) == IF ds # <<>> /\ ds[Len(ds)] = "0"
                         THEN DropTrailingZeros(SubSeq(ds, 1, Len(ds) - 1))
                         ELSE ds

Float(neg, units, frac) == [neg |-> neg, units |-> units, frac |-> frac]

Zero == Float(FALSE, 0, <<>>)

Five == Float(FALSE, 5, <<>>)

\* float(numeral) for a numeral  -?digits[.digits]
ParseFloat(numeral) ==
  LET neg  == numeral # <<>> /\ numeral[1] = "-"
      body == IF neg THEN Tail(numeral) ELSE numeral
      dots == {i \in 1..Len(body) : body[i] = "."}
      dot  == IF dots = {} THEN Len(body) + 1 ELSE CHOOSE i \in dots : TRUE
  IN  Float(neg, NatOf(SubSeq(body, 1, dot - 1)),
            DropTrailingZeros(SubSeq(body, dot + 1, Len(body))))

\* str(x) of a float x, as the f-string of the report writes a score
FormatFloat(x) ==
  (IF x.neg THEN <<"-">> ELSE <<>>) \o DigitsOf(x.units) \o <<".">>
    \o (IF x.frac = <<>> THEN <<"0">> ELSE x.frac)

\* x >= 0
NonNegative(x) == ~x.neg \/ (x.units = 0 /\ x.frac = <<>>)

(***************************************************************************)
(* The regular expressions of the parser, as searches in a text.           *)
(***************************************************************************)
\* the text s continues with sub at index i
StartsAt(sub, s, i) == /\ i >= 1
                       /\ i + Len(sub) - 1 <= Len(s)
                       /\ SubSeq(s, i, i + Len(sub) - 1) = sub

\* the first index at or after from where sub starts in s; 0 when none
Find(sub, s, from) ==
  LET at == {i \in from..(Len(s) - Len(sub) + 1) : StartsAt(sub, s, i)}
  IN  IF at = {} THEN 0 ELSE CHOOSE i \in at : \A j \in at : i <= j

\* $ without re.MULTILINE: the end of s, or just before a last newline
AtEnd(s, i) == i = Len(s) + 1 \/ (i = Len(s) /\ s[i] = Newline)

\* (.*?)(?=stop1|...|$) with re.DOTALL, from index from: the index where the
\* lazy group ends, which is the first one where a stop starts or s ends
LazyEnd(s, from, stops) ==
  CHOOSE i \in from..(Len(s) + 1) :
    /\ AtEnd(s, i) \/ \E stop \in stops : StartsAt(stop, s, i)
    /\ \A j \in from..(i - 1) :
         ~(AtEnd(s, j) \/ \E stop \in stops : StartsAt(stop, s, j))

\* label(.*?)(?=stops|$) searched in s: <<group(1)>>, or <<>> for no match
Section(label, stops, s) ==
  LET at == Find(label, s, 1)
      from == at + Len(label)
  IN  IF at = 0 THEN <<>>
      ELSE <<SubSeq(s, from, LazyEnd(s, from, stops) - 1)>>

\* the index after the digits that start at index i of s
DigitRunEnd(s, i) ==
  CHOOSE j \in i..(Len(s) + 1) :
    /\ j = Len(s) + 1 \/ ~IsDigit(s[j])
    /\ \A k \in i..(j - 1) : IsDigit(s[k])

\* \d+\.?\d* matched greedily at the digit at index i: the index after it
NumberEnd(s, i) ==
  LET a == DigitRunEnd(s, i)
  IN  IF a <= Len(s) /\ s[a] = "." THEN DigitRunEnd(s, a + 1) ELSE a

\* (\d+\.?\d*)<unit> matched at index i: the index of the unit, 0 for no
\* match.  The digits before the unit cannot be given back: a shorter run of
\* digits is followed by a digit and not by the unit.
ScoreEnd(s, i) ==
  IF i > Len(s) \/ ~IsDigit(s[i]) THEN 0
  ELSE LET a == DigitRunEnd(s, i)
           b == NumberEnd(s, i)
       IN  IF a <= Len(s) /\ s[a] = ScoreUnit THEN a
           ELSE IF b <= Len(s) /\ s[b] = ScoreUnit THEN b
           ELSE 0

\* re.findall(r"(\d+\.?\d*)<unit>", s) from index i on
RECURSIVE FindAllScores(_, _)
FindAllScores(s, i) ==
  IF i > Len(s) THEN <<>>
  ELSE LET e == ScoreEnd(s, i)
       IN  IF e = 0 THEN FindAllScores(s, i + 1)
           ELSE <<SubSeq(s, i, e - 1)>> \o FindAllScores(s, e + 1)

\* _extract_score with the first match in place of the last
extract_score_First(text) ==
  LET matches == FindAllScores(text, 1)
  IN  IF matches # <<>> THEN ParseFloat(matches[1]) ELSE Zero

\* lines 160-172: _extract_score
extract_score(text) ==
  LET matches == FindAllScores(text, 1)
  IN  IF matches # <<>> THEN ParseFloat(matches[Len(matches)]) ELSE Zero

\* re.sub(r'\s+', ' ', s) of a text s
RECURSIVE CollapseSpaces(_)
CollapseSpaces(s) ==
  IF s = <<>> THEN <<>>
  ELSE IF IsSpace(s[1])
  THEN IF Len(s) > 1 /\ IsSpace(s[2]) THEN CollapseSpaces(Tail(s))
       ELSE <<" ">> \o CollapseSpaces(Tail(s))
  ELSE <<s[1]>> \o CollapseSpaces(Tail(s))

\* lines 174-178: _clean_text
clean_text(text) == CollapseSpaces(Strip(text))

\* lines 85-86: <<group(1)>> of dimension_pattern, <<>> for no match
DimensionMatch(response_text) ==
  LET at == Find(DimensionMarker, response_text, 1)
      from == at + Len(DimensionMarker)
      to == Find(OverallScoreMarker, response_text, from)
  IN  IF at = 0 \/ to = 0 THEN <<>>
      ELSE <<SubSeq(response_text, from, to - 1)>>

\* lines 92-93
CompositionMatch(dimension_content) ==
  Section(CompositionLabel, {FocalLabel, ContrastWord}, dimension_content)

\* the focal length sub-section looked for only after a composition one
FocalMatch_AfterComposition(dimension_content) ==
  IF Find(CompositionLabel, dimension_content, 1) = 0 THEN <<>>
  ELSE Section(FocalLabel, {ContrastWord}, dimension_content)

\* lines 100-101
FocalMatch(dimension_content) ==
  Section(FocalLabel, {ContrastWord}, dimension_content)

\* lines 108-109
ContrastMatch(dimension_content) ==
  Section(ContrastLabel, {BlankLine}, dimension_content)

\* lines 122-123
EvaluationMatch(response_text) ==
  Section(EvaluationMarker, {TwoBlankLines}, response_text)

\* the overall score pattern with re.DOTALL: a newline does not end the
\* search for the digit
DigitOnLine_DotAll(s, from) ==
  LET at == {i \in from..Len(s) :
               /\ IsDigit(s[i])
               /\ \A j \in from..(i - 1) : ~IsDigit(s[j])}
  IN  IF at = {} THEN 0 ELSE CHOOSE i \in at : TRUE

\* the first digit after index from of s with no newline before it; 0: none
DigitOnLine(s, from) ==
  LET at == {i \in from..Len(s) :
               /\ IsDigit(s[i])
               /\ \A j \in from..(i - 1) : s[j] # Newline /\ ~IsDigit(s[j])}
  IN  IF at = {} THEN 0 ELSE CHOOSE i \in at : TRUE

\* the overall score pattern with a sign in its group: (-?\d+\.?\d*)
OverallScoreMatch_Signed(response_text) ==
  LET at == {i \in 1..Len(response_text) :
               /\ StartsAt(OverallScoreMarker, response_text, i)
               /\ DigitOnLine(response_text, i + Len(OverallScoreMarker)) # 0}
      first == CHOOSE i \in at : \A j \in at : i <= j
      digit == DigitOnLine(response_text, first + Len(OverallScoreMarker))
      from == IF response_text[digit - 1] = "-" THEN digit - 1 ELSE digit
  IN  IF at = {} THEN <<>>
      ELSE <<SubSeq(response_text, from, NumberEnd(response_text, digit) - 1)>>

\* lines 116-117: <<group(1)>> of overall_score_pattern, which has no
\* re.DOTALL, so that .*? stays on the line of the marker
OverallScoreMatch(response_text) ==
  LET at == {i \in 1..Len(response_text) :
               /\ StartsAt(OverallScoreMarker, response_text, i)
               /\ DigitOnLine(response_text, i + Len(OverallScoreMarker)) # 0}
      first == CHOOSE i \in at : \A j \in at : i <= j
      digit == DigitOnLine(response_text, first + Len(OverallScoreMarker))
  IN  IF at = {} THEN <<>>
      ELSE <<SubSeq(response_text, digit, NumberEnd(response_text, digit) - 1)>>

\* lines 180-196: _get_default_analysis
get_default_analysis ==
  [composition_analysis |-> <<"gou", "tu", "fen", "xi", "zan", "bu", "ke", "yong">>,
   focal_length_analysis |-> <<"jiao", "duan", "fen", "xi", "zan", "bu", "ke", "yong">>,
   contrast_exposure_brightness_analysis |->
     <<"dui", "bi", "du", "&", "pu", "guang", "du", "&", "liang", "du", "fen", "xi", "zan", "bu", "ke", "yong">>,
   overall_evaluation |-> <<"zheng", "ti", "ping", "jia", "zan", "bu", "ke", "yong">>,
   suggestions |-> <<"jian", "yi", "zan", "bu", "ke", "yong">>,
   scores |-> [composition |-> Five, focal_length |-> Five,
               contrast_exposure_brightness |-> Five, overall |-> Five]]

\* lines 70-153: the body of the try statement for a str response
Extract(response_text) ==
  LET dimension_match == DimensionMatch(response_text)
      composition_match == IF dimension_match = <<>> THEN <<>>
                           ELSE CompositionMatch(dimension_match[1])
      focal_match == IF dimension_match = <<>> THEN <<>>
                     ELSE FocalMatch(dimension_match[1])
      contrast_match == IF dimension_match = <<>> THEN <<>>
                        ELSE ContrastMatch(dimension_match[1])
      overall_score_match == OverallScoreMatch(response_text)
      evaluation_match == EvaluationMatch(response_text)
      evaluation_text == Strip(evaluation_match[1])
      at == Find(SuggestionKeyword, evaluation_text, 1)
  IN  [composition_analysis |->
         IF composition_match = <<>> THEN <<>>
         ELSE clean_text(Strip(composition_match[1])),
       focal_length_analysis |->
         IF focal_match = <<>> THEN <<>>
         ELSE clean_text(Strip(focal_match[1])),
       contrast_exposure_brightness_analysis |->
         IF contrast_match = <<>> THEN <<>>
         ELSE clean_text(Strip(contrast_match[1])),
       overall_evaluation |->
         IF evaluation_match = <<>> THEN <<>>
         ELSE IF at # 0 THEN Strip(SubSeq(evaluation_text, 1, at - 1))
         ELSE evaluation_text,
       suggestions |->
         IF evaluation_match = <<>> \/ at = 0 THEN <<>>
         ELSE SuggestionKeyword
                \o Strip(SubSeq(evaluation_text, at + Len(SuggestionKeyword),
                                Len(evaluation_text))),
       scores |->
         [composition |->
            IF composition_match = <<>> THEN Zero
            ELSE extract_score(Strip(composition_match[1])),
          focal_length |->
            IF focal_match = <<>> THEN Zero
            ELSE extract_score(Strip(focal_match[1])),
          contrast_exposure_brightness |->
            IF contrast_match = <<>> THEN Zero
            ELSE extract_score(Strip(contrast_match[1])),
          overall |->
            IF overall_score_match = <<>> THEN Zero
            ELSE ParseFloat(overall_score_match[1])]]

\* parse_response without its exception handler: <<>> is an exception that
\* leaves the function
parse_response_NoHandler(resp) ==
  IF resp = <<>> THEN <<>> ELSE <<Extract(resp[1])>>

\* lines 60-158: parse_response.  <<analysis>> is a return; the function
\* has no way to raise, which would be <<>>.  For a response that is not a
\* str (None) re.search raises TypeError at line 86, and the handler at lines
\* 155-158 returns the default analysis.
parse_response(resp) ==
  IF resp = <<>> THEN <<get_default_analysis>> ELSE <<Extract(resp[1])>>

\* line 210: '=' * 60
Rule == Rep("=", RuleLen)

\* lines 198-239: format_analysis_report
format_analysis_report(an, image_path) ==
  <<"\n">>
      \o Rule
      \o <<"\n", "tu", "xiang", "mei", "xue", "fen", "xi", "bao", "gao", "\n">>
      \o Rule
      \o <<"\n", "\n", "fen", "xi", "tu", "xiang", ":", " ">>
      \o image_path
      \o <<"\n", "\n", "[[", "wei", "du", "fen", "xi", "yu", "ping", "fen",
           "]]", "\n", "\n", "palette", " ", "gou", "tu", "fen", "xi", " ",
           "(", "ping", "fen", ":", " ">>
      \o FormatFloat(an.scores.composition)
      \o <<"/", "1", "0", ")", "\n">>
      \o an.composition_analysis
      \o <<"\n", "\n", "camera", " ", "jiao", "duan", "fen", "xi", " ", "(",
           "ping", "fen", ":", " ">>
      \o FormatFloat(an.scores.focal_length)
      \o <<"/", "1", "0", ")", " ", "\n">>
      \o an.focal_length_analysis
      \o <<"\n", "\n", "bulb", " ", "dui", "bi", "du", "&", "pu", "guang",
           "du", "&", "liang", "du", "fen", "xi", " ", "(", "ping", "fen",
           ":", " ">>
      \o FormatFloat(an.scores.contrast_exposure_brightness)
      \o <<"/", "1", "0", ")", "\n">>
      \o an.contrast_exposure_brightness_analysis
      \o <<"\n", "\n", "[[", "zong", "he", "ping", "jia", "]]", "\n", "zong",
           "he", "ping", "fen", ":", " ">>
      \o FormatFloat(an.scores.overall)
      \o <<"/", "1", "0", "\n", "\n">>
      \o an.overall_evaluation
      \o <<"\n", "\n", "[[", "gai", "jin", "jian", "yi", "]]", "\n">>
      \o an.suggestions
      \o <<"\n", "\n">>
      \o Rule
      \o <<"\n", "fen", "xi", "wan", "cheng", "\n">>
      \o Rule
      \o <<"\n">>

(***************************************************************************)
(* The answers the analysis is checked on: one piece for each slot of the  *)
(* answer the prompt asks for, an empty piece for a slot the model left    *)
(* out.                                                                    *)
(***************************************************************************)
\* the marker of the dimension block
HeaderPieces ==
  {<<>>,
   <<"wei", "du", "fen", "xi", "yu", "ping", "fen", "colon", "\n">>}

\* what a composition sub-section says before its scores
CompositionProse ==
  {<<"wen">>,
   <<"wen", "comma", "dui", "bi", "du", "hao">>,
   <<" ", "wen", " ", " ", "hao", "\n">>}

\* the scores a composition sub-section mentions, in their order
ScoreMentions ==
  <<<<" ", "6", "fen">>,
    <<" ", "8", "fen">>,
    <<" ", "7", ".", "5", "fen">>,
    <<" ", "9", "fen">>>>

CompositionPieces ==
  {<<>>} \cup {CompositionLabel \o prose \o Concat(SubSeq(ScoreMentions, 1, k))
                 \o <<Newline>> : prose \in CompositionProse, k \in 0..MaxScores}

\* the focal length sub-section
FocalPieces ==
  {<<>>,
   <<"jiao", "duan", "colon", "zhong", " ", "6", "fen", "\n">>,
   <<"jiao", "duan", "colon", "zhong", " ", "7", ".", "fen", "\n">>,
   <<"jiao", "duan", "colon", "zhong", "\n">>}

\* the contrast sub-section, the second with a blank line in it
ContrastPieces ==
  {<<>>,
   <<"dui", "bi", "du", "&", "pu", "guang", "du", "&", "liang", "du", "colon", "liang", " ", "8", "fen", "\n">>,
   <<"dui", "bi", "du", "&", "pu", "guang", "du", "&", "liang", "du", "colon", "liang", "\n", "\n", "8", "fen", "\n">>}

\* the overall score: on the line of its marker, on the next line, after
\* other words, and after a marker without a number
OverallPieces ==
  {<<>>,
   <<"zong", "he", "ping", "fen", "colon", "7", ".", "3", "\n">>,
   <<"zong", "he", "ping", "fen", "colon", "\n", "7", ".", "3", "\n">>,
   <<"zong", "he", "ping", "fen", "colon", "yue", "7", "fen", "\n">>,
   <<"zong", "he", "ping", "fen", "colon", "hao", "\n", "zong", "he", "ping", "fen", "colon", "8", "\n">>}

\* the evaluation section: with and without the suggestion keyword, with
\* blank lines, with spaces around the keyword, and with a score in it
EvaluationPieces ==
  {<<>>,
   <<"zong", "he", "ping", "jia", "yu", "jian", "yi", "colon", "hao", "stop", "jian", "yi", "colon", "duo", "pai">>,
   <<"zong", "he", "ping", "jia", "yu", "jian", "yi", "colon", "hao", "stop", "\n">>,
   <<"zong", "he", "ping", "jia", "yu", "jian", "yi", "colon", "hao", "stop", "\n", "\n", "\n", "jian", "yi", "colon", "duo", "pai">>,
   <<"zong", "he", "ping", "jia", "yu", "jian", "yi", "colon", " ", "hao", " ", "jian", "yi", " ", "duo", "pai", " ", "\n">>,
   <<"zong", "he", "ping", "jia", "yu", "jian", "yi", "colon", "hao", "stop", "\n", "\n", "jian", "yi", "colon", "zong", "he", "ping", "fen", "colon", "-", "8">>}

\* the answers, slot by slot
Answers ==
  {<<h, c, f, k, o, e>> : h \in HeaderPieces, c \in CompositionPieces,
                          f \in FocalPieces, k \in ContrastPieces,
                          o \in OverallPieces, e \in EvaluationPieces}

ImagePaths == {<<"a", ".", "j", "p", "g">>}

(***************************************************************************)
(* One answer analysed as analyze_single_image does it                     *)
(* (src/run_aesthetic_analysis.py lines 88-94), and the report parsed      *)
(* again.                                                                  *)
(***************************************************************************)
\* the answer is a text made of pieces, or it is None
InitAnalyzer ==
  /\ analyzer_pc = "parse"
  /\ \/ parts \in Answers /\ raw_response = <<Concat(parts)>>
     \/ parts = <<>> /\ raw_response = <<>>
  /\ analysis = <<>>
  /\ report = <<>>
  /\ report_analysis = <<>>
  /\ StreamIdle
  /\ FilesIdle
  /\ BatchIdle

\* analysis = analyzer.parse_response(response)
ParseResponse ==
  /\ analyzer_pc = "parse"
  /\ analysis' = parse_response(raw_response)
  /\ analyzer_pc' = IF analysis' = <<>> THEN "raised" ELSE "format"
  /\ UNCHANGED <<parts, raw_response, report, report_analysis>>
  /\ UNCHANGED notAnalyzer

\* report = analyzer.format_analysis_report(analysis, image_path)
FormatReport ==
  /\ analyzer_pc = "format"
  /\ \E image_path \in ImagePaths :
       report' = <<format_analysis_report(analysis[1], image_path)>>
  /\ analyzer_pc' = "reparse"
  /\ UNCHANGED <<parts, raw_response, analysis, report_analysis>>
  /\ UNCHANGED notAnalyzer

\* analyzer.parse_response(report)
ParseReport ==
  /\ analyzer_pc = "reparse"
  /\ report_analysis' = parse_response(report)
  /\ analyzer_pc' = IF report_analysis' = <<>> THEN "raised" ELSE "done"
  /\ UNCHANGED <<parts, raw_response, analysis, report>>
  /\ UNCHANGED notAnalyzer

NextAnalyzer == ParseResponse \/ FormatReport \/ ParseReport

SpecAnalyzer == InitAnalyzer /\ [][NextAnalyzer]_vars

(***************************************************************************)
(* Vocabulary of the properties of the analysis.                           *)
(***************************************************************************)
\* parse_response(raw_response) has been evaluated
Parsed == analyzer_pc \in {"format", "reparse", "done", "raised"}

\* the answer is a str
IsStr == raw_response # <<>>

TextFields == {"composition_analysis", "focal_length_analysis",
               "contrast_exposure_brightness_analysis", "overall_evaluation",
               "suggestions"}

ScoreFields == {"composition", "focal_length", "contrast_exposure_brightness",
                "overall"}

IsText(t) == /\ DOMAIN t = 1..Len(t)
             /\ \A i \in DOMAIN t : t[i] \in STRING

IsNumber(x) == /\ DOMAIN x = {"neg", "units", "frac"}
               /\ x.neg \in BOOLEAN
               /\ x.units \in Nat
               /\ \A i \in DOMAIN x.frac : IsDigit(x.frac[i])

IsCompleteRecord(r) ==
  /\ DOMAIN r = TextFields \cup {"scores"}
  /\ \A f \in TextFields : IsText(r[f])
  /\ DOMAIN r.scores = ScoreFields
  /\ \A f \in ScoreFields : IsNumber(r.scores[f])

\* C11: parse_response never raises: for every input it returns a record
\* that has all five narrative fields, each a string, and all four scores,
\* each a number.
C11_NeverRaises ==
  /\ analyzer_pc # "raised"
  /\ Parsed => Len(analysis) = 1 /\ IsCompleteRecord(analysis[1])
  /\ analyzer_pc = "done" =>
       Len(report_analysis) = 1 /\ IsCompleteRecord(report_analysis[1])

\* C11: an answer that is not a str has been parsed: the extraction raised
\* and the handler returned a record
C11_Witness ==
  /\ Parsed
  /\ ~IsStr
  /\ Len(analysis) = 1
  /\ IsCompleteRecord(analysis[1])

\* none of the markers of a section is in the text
Unparseable(text) ==
  /\ ~Contains(DimensionMarker, text)
  /\ ~Contains(OverallScoreMarker, text)
  /\ ~Contains(EvaluationMarker, text)

\* C12: a text in which no section marker is found, the empty text among
\* them, is parsed into the fixed default record: every score 5.0 and every
\* narrative field its placeholder.
C12_UnparseableGivesDefault ==
  (Parsed /\ IsStr /\ Unparseable(raw_response[1]))
    => analysis = <<get_default_analysis>>

\* the first index of the digits that end at index e of s (e + 1: none)
DigitRunStart(s, e) ==
  CHOOSE i \in 1..(e + 1) :
    /\ i = 1 \/ ~IsDigit(s[i - 1])
    /\ \A k \in i..e : IsDigit(s[k])

\* the units of s that a number stands before
ScoredUnits(s) ==
  {q \in 2..Len(s) :
     /\ s[q] = ScoreUnit
     /\ \/ IsDigit(s[q - 1])
        \/ s[q - 1] = "." /\ q > 2 /\ IsDigit(s[q - 2])}

\* the number that stands before the unit at index q, read backwards
NumeralBefore(s, q) ==
  LET e == q - 1
      r == DigitRunStart(s, e)
  IN  IF s[e] = "." THEN SubSeq(s, DigitRunStart(s, e - 1), e)
      ELSE IF r > 2 /\ s[r - 1] = "." /\ IsDigit(s[r - 2])
      THEN SubSeq(s, DigitRunStart(s, r - 2), e)
      ELSE SubSeq(s, r, e)

\* the score of the last <number><unit> of s, 0 when s has none
LastScore(s) ==
  LET units == ScoredUnits(s)
      last == CHOOSE q \in units : \A u \in units : u <= q
  IN  IF units = {} THEN Zero ELSE ParseFloat(NumeralBefore(s, last))

\* the sub-sections the parser found in the dimension block of a text
SubSections(text) ==
  LET block == DimensionMatch(text)
  IN  [composition |-> IF block = <<>> THEN <<>> ELSE CompositionMatch(block[1]),
       focal_length |-> IF block = <<>> THEN <<>> ELSE FocalMatch(block[1]),
       contrast_exposure_brightness |->
         IF block = <<>> THEN <<>> ELSE ContrastMatch(block[1])]

Dimensions == {"composition", "focal_length", "contrast_exposure_brightness"}

\* C13: the score of a dimension whose sub-section was found is the number
\* of the last <number><unit> in that sub-section, and 0 when the
\* sub-section has none.
C13_LastScoreWins ==
  (Parsed /\ IsStr) =>
    \A d \in Dimensions :
      LET found == SubSections(raw_response[1])[d]
      IN  found # <<>> => analysis[1].scores[d] = LastScore(found[1])

\* C13: a composition sub-section with two scores has been parsed, and its
\* score is the second one
C13_Witness ==
  /\ Parsed /\ IsStr
  /\ LET found == SubSections(raw_response[1]).composition
     IN  /\ found # <<>>
         /\ Cardinality(ScoredUnits(found[1])) = MaxScores
         /\ analysis[1].scores.composition = LastScore(found[1])
         /\ analysis[1].scores.composition # extract_score_First(found[1])

\* the first number after the first overall score marker of the text,
\* wherever it stands; <<>> when there is none
NumberAfterMarker(text) ==
  LET at == Find(OverallScoreMarker, text, 1)
      digits == {i \in (at + Len(OverallScoreMarker))..Len(text) : IsDigit(text[i])}
      first == CHOOSE i \in digits : \A j \in digits : i <= j
  IN  IF at = 0 \/ digits = {} THEN <<>>
      ELSE <<SubSeq(text, first, NumberEnd(text, first) - 1)>>

\* the first number after an overall score marker on the first line of the
\* text that has a marker with a number after it; <<>> when there is none
RECURSIVE NumberOnMarkerLine(_)
NumberOnMarkerLine(text) ==
  LET nl == Find(<<Newline>>, text, 1)
      line == IF nl = 0 THEN text ELSE SubSeq(text, 1, nl - 1)
      here == NumberAfterMarker(line)
  IN  IF here # <<>> THEN here
      ELSE IF nl = 0 THEN <<>>
      ELSE NumberOnMarkerLine(SubSeq(text, nl + 1, Len(text)))

ScoreOf(numeral) == IF numeral = <<>> THEN Zero ELSE ParseFloat(numeral[1])

\* C14 as claimed: the overall score is the first number that follows the
\* overall score marker anywhere later in the text, on the line of the
\* marker or not; 0 when the marker or the number is absent.
C14_OverallAnywhere ==
  (Parsed /\ IsStr) =>
    analysis[1].scores.overall = ScoreOf(NumberAfterMarker(raw_response[1]))

\* C14 as amended: the overall score is the first number that follows an
\* overall score marker on the line of that marker, for the first marker
\* that has one; 0 when no marker has a number after it on its line.
C14_OverallOnMarkerLine ==
  (Parsed /\ IsStr) =>
    analysis[1].scores.overall = ScoreOf(NumberOnMarkerLine(raw_response[1]))

\* C14: an answer whose overall score stands on the line of the marker, after
\* other words, has been parsed
C14_Witness ==
  /\ Parsed /\ IsStr
  /\ parts[5] = <<"zong", "he", "ping", "fen", "colon", "yue", "7", "fen", "\n">>
  /\ analysis[1].scores.overall = Float(FALSE, 7, <<>>)

\* C15: when the evaluation section has the suggestion keyword, the
\* evaluation is what stands before its first occurrence and the
\* suggestions are the keyword and what stands after it, each trimmed; when
\* it has none, the evaluation is the whole section and the suggestions are
\* the default placeholder.
C15_SplitAtKeyword ==
  (Parsed /\ IsStr /\ EvaluationMatch(raw_response[1]) # <<>>) =>
    LET section == Strip(EvaluationMatch(raw_response[1])[1])
        n == Len(SuggestionKeyword)
    IN  IF Contains(SuggestionKeyword, section)
        THEN \E i \in 1..Len(section) :
               /\ StartsAt(SuggestionKeyword, section, i)
               /\ \A j \in 1..(i - 1) : ~StartsAt(SuggestionKeyword, section, j)
               /\ analysis[1].overall_evaluation = Strip(SubSeq(section, 1, i - 1))
               /\ analysis[1].suggestions =
                    SuggestionKeyword \o Strip(SubSeq(section, i + n, Len(section)))
        ELSE /\ analysis[1].overall_evaluation = section
             /\ analysis[1].suggestions = get_default_analysis.suggestions

\* the answer without the pieces of some slots
Without(slots) == [i \in 1..Len(parts) |-> IF i \in slots THEN <<>> ELSE parts[i]]

\* the dimension whose sub-section a slot holds
SlotOf == [composition |-> 2, focal_length |-> 3, contrast_exposure_brightness |-> 4]

TextOf == [composition |-> "composition_analysis",
           focal_length |-> "focal_length_analysis",
           contrast_exposure_brightness |-> "contrast_exposure_brightness_analysis"]

\* the dimensions left out, with the slots to empty: one sub-section, or the
\* whole block with its marker
Omissions ==
  {[dims |-> {d}, slots |-> {SlotOf[d]}] : d \in Dimensions}
    \cup {[dims |-> Dimensions, slots |-> {1, 2, 3, 4}]}

\* the dimension block that the parser finds in the answer, when it finds
\* one, is made of the sub-sections of the answer and of nothing else
BlockOfSubSections ==
  LET block == DimensionMatch(raw_response[1])
  IN  block # <<>> =>
        block[1] = SubSeq(parts[1], Len(DimensionMarker) + 1, Len(parts[1]))
                     \o parts[2] \o parts[3] \o parts[4]

C20_ReportParsesBack ==
  /\ analyzer_pc = "raised" => report = <<>>
  /\ analyzer_pc = "done" =>
       /\ Len(report_analysis) = 1
       /\ \A f \in ScoreFields : NonNegative(report_analysis[1].scores[f])

\* C20: the report of the default record has been parsed
C20_Witness ==
  /\ analyzer_pc = "done"
  /\ analysis = <<get_default_analysis>>
  /\ Len(report_analysis) = 1
  /\ \A f \in ScoreFields : NonNegative(report_analysis[1].scores[f])

\* a report in which the parser finds a score has been parsed
ReportWithScore ==
  /\ analyzer_pc = "done"
  /\ report_analysis[1].scores.overall = Float(FALSE, 8, <<>>)

(***************************************************************************)
(* generate_stream and its image files (src/multimodal_inference.py):      *)
(* validate_image_file, convert_image_if_needed with its temporary file,   *)
(* the retry on a smaller image, and the two finally clauses.  What the     *)
(* engine, the chat template and the image library do is an input of each  *)
(* run; a step of a run is the code between two of its accesses to the     *)
(* directory, so that the steps of two runs interleave as the accesses of  *)
(* two threads do.                                                         *)
(*                                                                         *)
(* A file is named by its stem, by whether "_converted" follows the stem,  *)
(* and by its extension.  A path is a file and its spelling, with a        *)
(* leading "./" or without.  The images of the runs are no _converted      *)
(* files.                                                                  *)
(***************************************************************************)
Runs == {1, 2}

File(stem, converted, ext) == [stem |-> stem, converted |-> converted, ext |-> ext]

PathOf(dotted, file) == [dotted |-> dotted, file |-> file]

\* str(Path(p)): pathlib drops the leading "./"
StrOfPath(p) == [p EXCEPT !.dotted = FALSE]

\* lines 36-47, 50-65: get_image_format
get_image_format(file) ==
  CASE file.ext = ".png" -> "PNG"
    [] file.ext = ".jpg" -> "JPEG"
    [] OTHER -> "None"

\* line 179: path.parent / f"{path.stem}_converted{temp_ext}"
TempFile(file) == File(file.stem, TRUE, ".png")

Stems == {"a", "b"}

Extensions == {".jpg", ".png", ".txt"}

AllFiles == {File(stem, c, ext) : stem \in Stems, c \in BOOLEAN, ext \in Extensions}

\* the larger side of the images of the directory, in pixels
ImageSize == 250

Absent == [exists |-> FALSE, writer |-> 0, size |-> 0]

\* the images that the directory holds before the runs
Images == {File("a", FALSE, ".jpg"), File("a", FALSE, ".png"),
           File("b", FALSE, ".png"), File("a", FALSE, ".txt")}

\* an image that the directory does not hold
MissingImage == File("b", FALSE, ".jpg")

Directory == [f \in AllFiles |->
                IF f \in Images THEN [exists |-> TRUE, writer |-> 0, size |-> ImageSize]
                ELSE Absent]

NoPath == PathOf(FALSE, File("", FALSE, ""))

\* what the first call of the engine does, and what the second one does
FirstOutcomes == {"ok", "stop", "memory", "error"}

RetryOutcomes == {"ok", "error"}

\* the arguments of a run with what its engine and its image library will do
RunArgs(paths, sizes, firsts, retries, oks) ==
  [image_path : paths, max_size : sizes, first : firsts, retry : retries,
   convert_ok : oks, retry_convert_ok : oks]

AnyRun == RunArgs({PathOf(d, f) : d \in BOOLEAN, f \in Images \cup {MissingImage}},
                  MaxSizes, FirstOutcomes, RetryOutcomes, BOOLEAN)

\* the runs that are started together: images that are there, an image
\* library that works, an engine that ends well or runs out of memory once
ConcurrentRun == RunArgs({PathOf(FALSE, f) : f \in Images \ {File("a", FALSE, ".txt")}},
                         {MinMaxSize, MinMaxSize + 1}, {"ok", "memory"}, {"ok"}, {TRUE})

\* the validation that asks for the file alone, whatever its format
validate_image_file_AnyFormat(image_path, fs) == fs[image_path.file].exists

\* lines 68-101: validate_image_file
validate_image_file(image_path, fs) ==
  /\ fs[image_path.file].exists
  /\ get_image_format(image_path.file) # "None"

\* lines 132-185: convert_image_if_needed by run r under the limit max, with
\* an image library that works (ok) or raises: the path returned, the
\* directory afterwards, and the file written
convert_image_if_needed(image_path, max, ok, fs, r) ==
  LET path == StrOfPath(image_path)
      original == fs[path.file]
      needs_conversion == get_image_format(path.file) # "PNG"
      needs_resize == original.size > max
      temp_path == PathOf(FALSE, TempFile(path.file))
  IN  IF ~original.exists \/ ~ok
      THEN \* lines 183-185
           [path |-> image_path, files |-> fs, wrote |-> {}]
      ELSE IF ~needs_conversion /\ ~needs_resize
      THEN \* lines 162-163
           [path |-> path, files |-> fs, wrote |-> {}]
      ELSE [path |-> temp_path,
            files |-> [fs EXCEPT ![temp_path.file] =
                         [exists |-> TRUE, writer |-> r, size |-> Min(original.size, max)]],
            wrote |-> {temp_path.file}]

\* a finally clause that removes nothing
RemoveUnless_Never(path, kept, fs) == fs

\* lines 351-355, 365-368: os.remove(path) if path != kept and
\* os.path.exists(path)
RemoveUnless(path, kept, fs) ==
  IF path # kept /\ fs[path.file].exists
  THEN [fs EXCEPT ![path.file] = Absent]
  ELSE fs

Access(r, file, kind) == [run |-> r, file |-> file, kind |-> kind]

InitRuns(given, started) ==
  /\ run_args = given
  /\ run_pc = [r \in Runs |-> IF r \in started THEN "validate" ELSE "absent"]
  /\ processed_image_path = [r \in Runs |-> NoPath]
  /\ smaller_processed_path = [r \in Runs |-> NoPath]
  /\ files = Directory
  /\ created = [r \in Runs |-> {}]
  /\ accesses = {}
  /\ engine_reads = [r \in Runs |-> <<>>]
  /\ result = [r \in Runs |-> "none"]
  /\ messages = [r \in Runs |-> <<>>]
  /\ StreamIdle
  /\ AnalyzerIdle
  /\ BatchIdle

\* one run; the other one has never been started
InitFiles ==
  \E a \in AnyRun : InitRuns([r \in Runs |-> a], {1})

\* two runs started together
InitConcurrent ==
  \E a \in ConcurrentRun, b \in ConcurrentRun :
    InitRuns([r \in Runs |-> IF r = 1 THEN a ELSE b], Runs)

\* lines 251-255
Validate(r) ==
  /\ run_pc[r] = "validate"
  /\ accesses' = accesses \cup {Access(r, run_args[r].image_path.file, "read")}
  /\ IF validate_image_file(run_args[r].image_path, files)
     THEN /\ run_pc' = [run_pc EXCEPT ![r] = "convert"]
          /\ UNCHANGED <<result, messages>>
     ELSE /\ run_pc' = [run_pc EXCEPT ![r] = "done"]
          /\ result' = [result EXCEPT ![r] = "image_error"]
          /\ messages' = [messages EXCEPT ![r] = Append(@, "image_error")]
  /\ UNCHANGED <<run_args, processed_image_path, smaller_processed_path, files,
                 created, engine_reads>>
  /\ UNCHANGED notFiles

\* line 259
Convert(r) ==
  /\ run_pc[r] = "convert"
  /\ LET done == convert_image_if_needed(run_args[r].image_path, run_args[r].max_size,
                                         run_args[r].convert_ok, files, r)
     IN  /\ processed_image_path' = [processed_image_path EXCEPT ![r] = done.path]
         /\ files' = done.files
         /\ created' = [created EXCEPT ![r] = @ \cup done.wrote]
         /\ accesses' = accesses
                          \cup {Access(r, run_args[r].image_path.file, "read")}
                          \cup {Access(r, f, "write") : f \in done.wrote}
  /\ run_pc' = [run_pc EXCEPT ![r] = "generate"]
  /\ UNCHANGED <<run_args, smaller_processed_path, engine_reads, result, messages>>
  /\ UNCHANGED notFiles

\* lines 263-323, 357-359: the first call of the engine, which opens the
\* image it was given
Generate(r) ==
  /\ run_pc[r] = "generate"
  /\ LET found == files[processed_image_path[r].file]
         outcome == IF ~found.exists THEN "error" ELSE run_args[r].first
     IN  /\ engine_reads' = [engine_reads EXCEPT ![r] = Append(@, found)]
         /\ accesses' = accesses \cup {Access(r, processed_image_path[r].file, "read")}
         /\ IF outcome = "memory"
            THEN /\ run_pc' = [run_pc EXCEPT ![r] = "handler"]
                 /\ UNCHANGED <<result, messages>>
            ELSE /\ run_pc' = [run_pc EXCEPT ![r] = "finally"]
                 /\ result' = [result EXCEPT ![r] = outcome]
                 /\ messages' = IF outcome = "error"
                                THEN [messages EXCEPT ![r] = Append(@, "error")]
                                ELSE messages
  /\ UNCHANGED <<run_args, processed_image_path, smaller_processed_path, files, created>>
  /\ UNCHANGED notFiles

\* lines 324-335, 356-357: the handler of an exhaustion, up to the second
\* conversion
Handler(r) ==
  /\ run_pc[r] = "handler"
  /\ IF CanShrink(run_args[r].max_size)
     THEN /\ LET done == convert_image_if_needed(run_args[r].image_path,
                                                 run_args[r].max_size \div 2,
                                                 run_args[r].retry_convert_ok, files, r)
             IN  /\ smaller_processed_path' = [smaller_processed_path EXCEPT ![r] = done.path]
                 /\ files' = done.files
                 /\ created' = [created EXCEPT ![r] = @ \cup done.wrote]
                 /\ accesses' = accesses
                                  \cup {Access(r, run_args[r].image_path.file, "read")}
                                  \cup {Access(r, f, "write") : f \in done.wrote}
          /\ run_pc' = [run_pc EXCEPT ![r] = "retry"]
          /\ messages' = [messages EXCEPT ![r] = @ \o <<"oom", "retrying">>]
          /\ UNCHANGED result
     ELSE /\ run_pc' = [run_pc EXCEPT ![r] = "finally"]
          /\ result' = [result EXCEPT ![r] = "cannot_shrink"]
          /\ messages' = [messages EXCEPT ![r] = @ \o <<"oom", "cannot_shrink">>]
          /\ UNCHANGED <<smaller_processed_path, files, created, accesses>>
  /\ UNCHANGED <<run_args, processed_image_path, engine_reads>>
  /\ UNCHANGED notFiles

\* lines 336-348: the second call of the engine
RetryGenerate(r) ==
  /\ run_pc[r] = "retry"
  /\ LET found == files[smaller_processed_path[r].file]
     IN  /\ engine_reads' = [engine_reads EXCEPT ![r] = Append(@, found)]
         /\ accesses' = accesses \cup {Access(r, smaller_processed_path[r].file, "read")}
         /\ result' = [result EXCEPT ![r] =
                         IF found.exists /\ run_args[r].retry = "ok"
                         THEN "degraded_ok" ELSE "retry_failed"]
         /\ messages' = IF found.exists /\ run_args[r].retry = "ok"
                        THEN messages
                        ELSE [messages EXCEPT ![r] = Append(@, "retry_failed")]
  /\ run_pc' = [run_pc EXCEPT ![r] = "retry_finally"]
  /\ UNCHANGED <<run_args, processed_image_path, smaller_processed_path, files, created>>
  /\ UNCHANGED notFiles

\* lines 349-355: the finally clause of the retry
RetryFinally(r) ==
  /\ run_pc[r] = "retry_finally"
  /\ files' = RemoveUnless(smaller_processed_path[r], processed_image_path[r], files)
  /\ accesses' = accesses
       \cup (IF smaller_processed_path[r] # processed_image_path[r]
             THEN {Access(r, smaller_processed_path[r].file, "read")} ELSE {})
       \cup (IF files' # files
             THEN {Access(r, smaller_processed_path[r].file, "remove")} ELSE {})
  /\ run_pc' = [run_pc EXCEPT ![r] = "finally"]
  /\ UNCHANGED <<run_args, processed_image_path, smaller_processed_path, created,
                 engine_reads, result, messages>>
  /\ UNCHANGED notFiles

\* lines 363-370: the finally clause of generate_stream
Finally(r) ==
  /\ run_pc[r] = "finally"
  /\ files' = RemoveUnless(processed_image_path[r], run_args[r].image_path, files)
  /\ accesses' = accesses
       \cup (IF processed_image_path[r] # run_args[r].image_path
             THEN {Access(r, processed_image_path[r].file, "read")} ELSE {})
       \cup (IF files' # files
             THEN {Access(r, processed_image_path[r].file, "remove")} ELSE {})
  /\ run_pc' = [run_pc EXCEPT ![r] = "done"]
  /\ UNCHANGED <<run_args, processed_image_path, smaller_processed_path, created,
                 engine_reads, result, messages>>
  /\ UNCHANGED notFiles

NextFiles ==
  \E r \in Runs :
    \/ Validate(r)
    \/ Convert(r)
    \/ Generate(r)
    \/ Handler(r)
    \/ RetryGenerate(r)
    \/ RetryFinally(r)
    \/ Finally(r)

\* one run of generate_stream
SpecFiles == InitFiles /\ [][NextFiles]_vars

\* two runs of generate_stream in two threads
SpecConcurrent == InitConcurrent /\ [][NextFiles]_vars

(***************************************************************************)
(* Vocabulary of the properties of the image files.                        *)
(***************************************************************************)
\* what a run tells its caller when no other run works beside it
AloneResult(a) ==
  IF ~validate_image_file(a.image_path, Directory) THEN "image_error"
  ELSE IF a.first # "memory" THEN a.first
  ELSE IF ~CanShrink(a.max_size) THEN "cannot_shrink"
  ELSE IF a.retry = "ok" THEN "degraded_ok"
  ELSE "retry_failed"

\* C17: when a run of generate_stream has ended, however it ended, none of
\* the temporary image files it wrote, for its first attempt or for its
\* retry, is left in the directory.
C17_TempFilesRemoved ==
  \A r \in Runs :
    run_pc[r] = "done" => \A f \in created[r] : ~files[f].exists

\* C17: a run has ended whose first attempt used the image as it was and
\* whose retry wrote a smaller image, and the smaller image is gone
C17_Witness ==
  /\ run_pc[1] = "done"
  /\ result[1] \in {"degraded_ok", "retry_failed"}
  /\ processed_image_path[1].file = run_args[1].image_path.file
  /\ created[1] = {smaller_processed_path[1].file}
  /\ ~files[smaller_processed_path[1].file].exists

\* a run has ended whose first attempt wrote a converted image and whose
\* retry wrote it again, and the converted image is gone
BothAttemptsConverted ==
  /\ run_pc[1] = "done"
  /\ result[1] \in {"degraded_ok", "retry_failed"}
  /\ created[1] = {processed_image_path[1].file}
  /\ smaller_processed_path[1] = processed_image_path[1]
  /\ ~files[processed_image_path[1].file].exists

\* no file that a run wrote or removed was read, written or removed by the
\* other run
NoSharedFile ==
  \A x \in accesses, y \in accesses :
    (x.run # y.run /\ x.file = y.file) => (x.kind = "read" /\ y.kind = "read")

\* a run that has ended told its caller what it tells it when it runs alone
ResultAsAlone ==
  \A r \in Runs :
    run_pc[r] = "done" => result[r] = AloneResult(run_args[r])

\* C18: two runs of generate_stream that work at the same time share no
\* mutable state under any interleaving of their steps: no temporary image
\* file of one is read or written by the other, and each run's result is its
\* result when it runs alone.
C18_NoSharedState == NoSharedFile /\ ResultAsAlone

(***************************************************************************)
(* The batch of main (src/run_aesthetic_analysis.py, lines 156-190) and    *)
(* analyze_single_image (lines 65-111).  What goes wrong with an image is  *)
(* an input: the step of analyze_single_image that raises for it.          *)
(***************************************************************************)
\* the step that raises for an image: none, generate_response (line 88), the
\* extraction inside parse_response (line 91), the writing of the report
\* (lines 97-100), the writing of the JSON file (line 104)
Failures == {"none", "generation", "parsing", "report", "json"}

Image(path, fails) == [path |-> path, fails |-> fails]

\* get_image_files, lines 28-60: a list of distinct paths
ImageLists ==
  UNION {[1..n -> Failures] : n \in 0..MaxImages}

ImagesOf(fails) == [i \in 1..Len(fails) |-> Image(i, fails[i])]

\* analyze_single_image without its handler
analyze_single_image_Uncaught(image) ==
  IF image.fails \in {"generation", "report"} THEN "raised" ELSE "True"

\* lines 65-111: analyze_single_image.  parse_response answers its own
\* failure with a record (src/aesthetic_analyzer.py, lines 155-158) and
\* save_analysis_json logs its own (lines 261-262); whatever else raises is
\* caught at line 109
analyze_single_image(image) ==
  CASE image.fails = "generation" -> "False"
    [] image.fails = "report" -> "False"
    [] OTHER -> "True"

InitBatch ==
  /\ batch_pc = "scan"
  /\ \E fails \in ImageLists : image_files = ImagesOf(fails)
  /\ pending = <<>>
  /\ successful_analyses = <<>>
  /\ failed_count = 0
  /\ attempted = <<>>
  /\ StreamIdle
  /\ AnalyzerIdle
  /\ FilesIdle

\* lines 156-174: no image, or the start of the loop
Scan ==
  /\ batch_pc = "scan"
  /\ IF image_files = <<>>
     THEN /\ batch_pc' = "returned"
          /\ UNCHANGED pending
     ELSE /\ batch_pc' = "loop"
          /\ pending' = image_files
  /\ successful_analyses' = <<>>
  /\ failed_count' = 0
  /\ UNCHANGED <<image_files, attempted>>
  /\ UNCHANGED notBatch

\* lines 176-190: one turn of the loop; lines 243-245 when the call raises
Analyze ==
  /\ batch_pc = "loop"
  /\ pending # <<>>
  /\ LET image_path == Head(pending)
         success == analyze_single_image(image_path)
     IN  /\ attempted' = Append(attempted, image_path)
         /\ pending' = Tail(pending)
         /\ CASE success = "True" ->
                   /\ successful_analyses' = Append(successful_analyses, image_path)
                   /\ UNCHANGED <<failed_count, batch_pc>>
              [] success = "False" ->
                   /\ failed_count' = failed_count + 1
                   /\ UNCHANGED <<successful_analyses, batch_pc>>
              [] OTHER ->
                   /\ batch_pc' = "crashed"
                   /\ UNCHANGED <<successful_analyses, failed_count>>
  /\ UNCHANGED image_files
  /\ UNCHANGED notBatch

\* line 176: the iterator is exhausted
EndLoop ==
  /\ batch_pc = "loop"
  /\ pending = <<>>
  /\ batch_pc' = "done"
  /\ UNCHANGED <<image_files, pending, successful_analyses, failed_count, attempted>>
  /\ UNCHANGED notBatch

NextBatch ==
  \/ Scan
  \/ Analyze
  \/ EndLoop

SpecBatch == InitBatch /\ [][NextBatch]_vars

\* C19: a batch goes on past the images that fail: main never ends on an
\* image's failure, the images attempted so far are the first ones of the
\* list, once each and in the order of the list, and when the loop has ended
\* every image was attempted and len(successful_analyses) + failed_count is
\* the number of images.
C19_BatchContinues ==
  /\ batch_pc # "crashed"
  /\ batch_pc \in {"loop", "done"} =>
       /\ Len(attempted) <= Len(image_files)
       /\ attempted = SubSeq(image_files, 1, Len(attempted))
  /\ batch_pc = "done" =>
       /\ attempted = image_files
       /\ Len(successful_analyses) + failed_count = Len(image_files)

\* C19: the loop has ended on a list whose first image failed in the
\* generation and whose second one was analysed
C19_Witness ==
  /\ batch_pc = "done"
  /\ Len(image_files) >= 2
  /\ image_files[1].fails = "generation"
  /\ failed_count >= 1
  /\ \E k \in 1..Len(successful_analyses) : successful_analyses[k] = image_files[2]

(***************************************************************************)
(* C21-C30: the guard switched off, the buffer of recent chunks, what is   *)
(* yielded and in which order, the sections of an answer, and the image    *)
(* files of a run.                                                         *)
(***************************************************************************)
\* C21: with stop_on_repeat false no break is ever taken, and the loop body
\* yields the engine's chunk, unless it is empty, and goes on to ask the
\* engine for the next one.
C21_GuardDisabled ==
  [][ ~stop_on_repeat =>
        /\ ~stopped'
        /\ pc = "guard" =>
             /\ pc' = "pull"
             /\ out' = IF response[1] = <<>> THEN out
                       ELSE Append(out, [kind |-> "chunk", text |-> response[1]]) ]_vars

\* C21: a run without the guard has ended with the engine, having yielded
\* three chunks of which the second repeats the first
C21_Witness ==
  /\ ~stop_on_repeat
  /\ repeat_threshold = 2
  /\ pc = "done"
  /\ caught = <<>>
  /\ Len(out) >= 3
  /\ Len(out) = Len(observed)
  /\ out[1] = [kind |-> "chunk", text |-> WordChunk]
  /\ out[2] = out[1]

\* C22: with the guard on, the buffer of recent chunks never holds more than
\* repeat_threshold entries, and it holds the last min(n, repeat_threshold)
\* of the n non-empty chunks seen so far, in their order.
C22_RingBuffer ==
  stop_on_repeat =>
    LET n == Len(observed)
        m == IF n < repeat_threshold THEN n ELSE repeat_threshold
    IN  /\ Len(recent_segments) <= repeat_threshold
        /\ recent_segments = [i \in 1..m |-> observed[n - m + i].text]

\* C22: more chunks were seen than the buffer holds, and the oldest one,
\* which differs from the next, has left it
C22_Witness ==
  /\ stop_on_repeat
  /\ Len(observed) > repeat_threshold
  /\ observed[1].text # observed[2].text
  /\ Len(recent_segments) = repeat_threshold

\* C25: clear_mlx_memory is called at most once in a run, only in a run whose
\* first call of the engine raised an exhaustion error, and it has been
\* called whenever the retry call of the engine is made.
C25_ClearOnlyOnExhaustion ==
  /\ cleared <= 1
  /\ cleared = 1 => Exhausted /\ pc \in {"retry", "done"}
  /\ Len(calls) = 2 => cleared = 1
  /\ retry_pulls > 0 => cleared = 1

\* C25: a run has ended whose retry asked the engine for chunks, after one
\* call of clear_mlx_memory
C25_Witness ==
  /\ pc = "done"
  /\ cleared = 1
  /\ Len(calls) = 2
  /\ retry_pulls > 1
  /\ retry_e = <<>>

\* the texts of the chunks among what was yielded
ChunkTexts(ys) ==
  LET chunks == SelectSeq(ys, LAMBDA y : y.kind = "chunk")
  IN  [i \in 1..Len(chunks) |-> chunks[i].text]

\* C26: in a run with the guard on and no error of the engine, the chunks
\* yielded are the engine's non-empty chunks in their order, all of them
\* while no break was taken and all but the last once one was; the
\* accumulated text is the chunks yielded, so the chunk of the break is in
\* neither.
C26_YieldsBeforeStop ==
  (stop_on_repeat /\ caught = <<>>) =>
    LET n == Len(observed)
        kept == IF stopped THEN n - 1 ELSE n
    IN  /\ stopped => n >= 1 /\ observed[n].verdict = "STOP"
        /\ ChunkTexts(out) = [i \in 1..kept |-> observed[i].text]
        /\ generated_text = Concat(ChunkTexts(out))

\* C26: a break was taken on the third chunk, which repeats the second, and
\* two chunks were yielded
C26_Witness ==
  /\ stopped
  /\ caught = <<>>
  /\ Len(observed) = 3
  /\ observed[3].reason = "short_span"
  /\ ChunkTexts(out) = <<observed[1].text, observed[2].text>>

\* what the first attempt yielded
FirstAttemptYielded ==
  LET kept == SelectSeq(observed, LAMBDA o : o.verdict # "STOP")
  IN  [i \in 1..Len(kept) |-> Yielded("chunk", kept[i].text)]

\* what was yielded after the chunks of the first attempt
AfterFirstAttempt == SubSeq(out, Len(FirstAttemptYielded) + 1, Len(out))

\* the first attempt's chunks are still there, and an error of the engine
\* is answered with a message, which carries the error unless it is the
\* message of an exhaustion
FailureIsReported ==
  LET first == FirstAttemptYielded
      n == Len(first)
  IN  /\ Len(out) > n
      /\ SubSeq(out, 1, n) = first
      /\ out[n + 1].kind \in {"error", "oom"}
      /\ out[n + 1].kind = "error" => out[n + 1].text = caught[1]
      /\ retry_e # <<>> => LastYielded = Yielded("retry_failed", retry_e[1])

\* C27 as stated: when a run has ended in which the engine raised, what was
\* yielded is the chunks of the first attempt, then messages, then the
\* chunks of the retry: no message follows a chunk of the retry.
C27_MessagesThenRetryOutput ==
  (pc = "done" /\ caught # <<>>) =>
    /\ FailureIsReported
    /\ LET after == AfterFirstAttempt
       IN  \A j \in 2..Len(after) :
             after[j - 1].kind = "chunk" => after[j].kind = "chunk"

\* C27 as amended: when a run has ended in which the engine raised, what was
\* yielded is the chunks of the first attempt, then messages, then the
\* chunks of the retry, then the message of the retry's failure when the
\* retry raised.
C27_MessagesRetryOutputRetryFailure ==
  (pc = "done" /\ caught # <<>>) =>
    /\ FailureIsReported
    /\ LET after == AfterFirstAttempt
       IN  \A j \in 2..Len(after) :
             after[j - 1].kind = "chunk" =>
               \/ after[j].kind = "chunk"
               \/ /\ j = Len(after)
                  /\ retry_e # <<>>
                  /\ after[j] = Yielded("retry_failed", retry_e[1])

\* C27: a first attempt that yielded a chunk and ran out of memory, a retry
\* that yielded a chunk and raised
C27_Witness ==
  /\ pc = "done"
  /\ FirstAttemptYielded # <<>>
  /\ retry_e # <<>>
  /\ RetryYielded # <<>>
  /\ LastYielded.kind = "retry_failed"

\* C30: a break of the long-span check is taken only when the text
\* accumulated before the chunk has 100 characters or more.
C30_LongSpanNeedsHundred ==
  \A k \in 1..Len(observed) :
    observed[k].reason = "long_span" => Len(TextBefore(k)) >= 100

\* C30: a break of the long-span check on a text of exactly 100 characters
C30_Witness ==
  /\ observed # <<>>
  /\ observed[Len(observed)].reason = "long_span"
  /\ Len(TextBefore(Len(observed))) = 100

\* the label that opens the sub-section of a dimension
LabelOf == [composition |-> CompositionLabel,
            focal_length |-> FocalLabel,
            contrast_exposure_brightness |-> ContrastLabel]

\* what the sub-section of a dimension says after its label, up to the next
\* label or the end of the block
SubSectionContent(d) ==
  SubSeq(parts[SlotOf[d]], Len(LabelOf[d]) + 1, Len(parts[SlotOf[d]]))

\* C23: the narrative text of a dimension is what stands between its label
\* and the next label, or the end of the dimension block, with runs of
\* whitespace collapsed and the ends trimmed: a mention of the contrast or a
\* blank line inside the sub-section does not cut it short.
C23_SubSectionsWhole ==
  (Parsed /\ IsStr /\ DimensionMatch(raw_response[1]) # <<>> /\ BlockOfSubSections) =>
    \A d \in Dimensions :
      parts[SlotOf[d]] # <<>> =>
        analysis[1][TextOf[d]] = clean_text(Strip(SubSectionContent(d)))

NonSpace(text) == SelectSeq(text, LAMBDA c : ~IsSpace(c))

\* what stands after the first marker of the evaluation section
AfterEvaluationMarker(text) ==
  LET at == Find(EvaluationMarker, text, 1)
  IN  SubSeq(text, at + Len(EvaluationMarker), Len(text))

\* C24: the evaluation section runs from its marker to the end of the text:
\* every character after the marker that is no whitespace, after blank
\* lines as well, is in the evaluation or in the suggestions.
C24_EvaluationToEnd ==
  (Parsed /\ IsStr /\ Contains(EvaluationMarker, raw_response[1])) =>
    NonSpace(analysis[1].overall_evaluation \o analysis[1].suggestions)
      = NonSpace(AfterEvaluationMarker(raw_response[1]))

\* C28: a run of generate_stream never removes the image of its caller: when
\* the run has ended, the image it was given is in the directory if it was
\* there before, as is every other file the directory held before the run.
C28_InputKept ==
  \A r \in Runs :
    run_pc[r] = "done" =>
      \A f \in AllFiles : Directory[f].exists => files[f].exists

\* the image of a run is not there, or its extension is none of an image
\* format
Unusable(a) ==
  \/ ~Directory[a.image_path.file].exists
  \/ a.image_path.file.ext \notin {".jpg", ".png"}

\* C29: a run whose image fails the validation yields one message, the one
\* of the image error, and ends: the engine is not called, nothing is
\* converted, no file is written or removed.
C29_InvalidImageEndsRun ==
  \A r \in Runs :
    (run_pc[r] \notin {"absent", "validate"} /\ Unusable(run_args[r])) =>
      /\ run_pc[r] = "done"
      /\ messages[r] = <<"image_error">>
      /\ result[r] = "image_error"
      /\ engine_reads[r] = <<>>
      /\ processed_image_path[r] = NoPath
      /\ created[r] = {}
      /\ files = Directory
      /\ \A x \in accesses : x.run = r => x.kind = "read"

\* C29: a run has ended on a file that is there and is no image
C29_Witness ==
  /\ run_pc[1] = "done"
  /\ run_args[1].image_path.file = File("a", FALSE, ".txt")
  /\ files[run_args[1].image_path.file].exists
  /\ messages[1] = <<"image_error">>
====
